---------------------------- MODULE Spec2Model ----------------------------
(***************************************************************************)
(* Nexus Studio: the shared generation engine (src/src/ai.rs) and the web  *)
(* core that serialises access to it (src/src/web.rs).                     *)
(*                                                                         *)
(* Two specifications share the engine operators:                          *)
(*   Spec        the web server: HTTP /api/generate handlers and WebSocket *)
(*               sessions contending for the engine slot's RwLock;         *)
(*   EngineSpec  one engine instance driven directly (the CLI paths of     *)
(*               src/src/commands.rs): new, then load / generate calls.    *)
(*                                                                         *)
(* Strings are sequences of characters; a string literal of the source     *)
(* that is only ever concatenated and compared is kept as one element.     *)
(***************************************************************************)
EXTENDS Integers, Sequences, FiniteSets, TLC

\* ------------------------------------------------------------------ bounds
NumClients == 2       \* concurrent clients, each an HTTP request or a WebSocket session
MaxElapsedMs == 1     \* largest elapsed time a generate call measures
MaxCalls == 3         \* load / generate calls made on the directly driven engine

\* ------------------------------------------------------- program constants
TokenCeiling == 500       \* ai.rs: max_tokens.min(500)
ContextSize == 4096       \* ai.rs: context_size: 4096
WebMaxTokens == 2000      \* web.rs: generate(prompt, 2000)

\* ----------------------------------------------------------------- strings
UpperChars == <<"A","B","C","D","E","F","G","H","I","J","K","L","M",
                "N","O","P","Q","R","S","T","U","V","W","X","Y","Z">>
LowerChars == <<"a","b","c","d","e","f","g","h","i","j","k","l","m",
                "n","o","p","q","r","s","t","u","v","w","x","y","z">>

\* char::to_lowercase on one character
ToLowerChar(c) ==
    IF \E i \in 1..Len(UpperChars) : UpperChars[i] = c
    THEN LowerChars[CHOOSE i \in 1..Len(UpperChars) : UpperChars[i] = c]
    ELSE c

\* str::to_lowercase
to_lowercase(s) == [i \in 1..Len(s) |-> ToLowerChar(s[i])]

\* str::contains(pat): pat occurs as a contiguous substring of s
contains(s, pat) ==
    \E i \in 0..(Len(s) - Len(pat)) :
        \A j \in 1..Len(pat) : s[i + j] = pat[j]

STR_phi3mini   == <<"p","h","i","-","3","-","m","i","n","i">>
STR_phi3small  == <<"p","h","i","-","3","-","s","m","a","l","l">>
STR_phi3medium == <<"p","h","i","-","3","-","m","e","d","i","u","m">>
STR_login      == <<"l","o","g","i","n">>
STR_card       == <<"c","a","r","d">>

\* ------------------------------------------------------------------ engine
None == [some |-> FALSE]
Some(x) == [some |-> TRUE, val |-> x]

Phi3Mini   == [variant |-> "Phi3Mini",   name |-> <<>>]
Phi3Small  == [variant |-> "Phi3Small",  name |-> <<>>]
Phi3Medium == [variant |-> "Phi3Medium", name |-> <<>>]
Custom(n)  == [variant |-> "Custom",     name |-> n]

\* Mutant of AIModel::new: a custom name is stored as it was passed.
AIModel_new_verbatim(model_name) ==
    LET lowered == to_lowercase(model_name)
        model_type ==
            IF lowered = STR_phi3mini THEN Phi3Mini
            ELSE IF lowered = STR_phi3small THEN Phi3Small
            ELSE IF lowered = STR_phi3medium THEN Phi3Medium
            ELSE Custom(model_name)
    IN [ok |-> TRUE,
        model |-> [model_type |-> model_type,
                   model_path |-> None,
                   context_size |-> ContextSize,
                   loaded |-> FALSE]]

\* AIModel::new: the name is lowercased, matched, and the lowercased string
\* (the match binding `custom`) is what Custom keeps.  Always Ok.
AIModel_new(model_name) ==
    LET lowered == to_lowercase(model_name)
        model_type ==
            IF lowered = STR_phi3mini THEN Phi3Mini
            ELSE IF lowered = STR_phi3small THEN Phi3Small
            ELSE IF lowered = STR_phi3medium THEN Phi3Medium
            ELSE Custom(lowered)
    IN [ok |-> TRUE,
        model |-> [model_type |-> model_type,
                   model_path |-> None,
                   context_size |-> ContextSize,
                   loaded |-> FALSE]]

\* AIModelType::to_string
AIModelType_to_string(t) ==
    CASE t.variant = "Phi3Mini"   -> STR_phi3mini
      [] t.variant = "Phi3Small"  -> STR_phi3small
      [] t.variant = "Phi3Medium" -> STR_phi3medium
      [] t.variant = "Custom"     -> t.name

\* Mutants of AIModel::load: one never sets the flag, one has no early return.
AIModel_load_noset(m) ==
    [ok |-> TRUE, model |-> m, slept |-> ~m.loaded]

AIModel_load_always(m) ==
    [ok |-> TRUE, model |-> [m EXCEPT !.loaded = TRUE], slept |-> TRUE]

\* Mutant of AIModel::load: loading an engine that is loaded is an error.
AIModel_load_twice(m) ==
    IF m.loaded
    THEN [ok |-> FALSE, model |-> m, slept |-> FALSE]
    ELSE [ok |-> TRUE, model |-> [m EXCEPT !.loaded = TRUE], slept |-> TRUE]

\* AIModel::load: early return when loaded; otherwise the simulated load
\* (log + 200 ms sleep) runs and loaded becomes true.  `slept` reports
\* whether the simulated load work ran.  Always Ok.
AIModel_load(m) ==
    IF m.loaded
    THEN [ok |-> TRUE, model |-> m, slept |-> FALSE]
    ELSE [ok |-> TRUE, model |-> [m EXCEPT !.loaded = TRUE], slept |-> TRUE]

\* AIModel::generate_generic_response
generate_generic_response(prompt) ==
    <<"// Generated code based on prompt: ">> \o prompt

\* Mutant of AIModel::generate_phi3_response: "card" is tested first.
generate_phi3_response_cardfirst(prompt) ==
    IF contains(to_lowercase(prompt), STR_card)
    THEN <<"// Generated card component placeholder">>
    ELSE IF contains(to_lowercase(prompt), STR_login)
    THEN <<"// Generated login component placeholder">>
    ELSE generate_generic_response(prompt)

\* AIModel::generate_phi3_response
generate_phi3_response(prompt) ==
    IF contains(to_lowercase(prompt), STR_login)
    THEN <<"// Generated login component placeholder">>
    ELSE IF contains(to_lowercase(prompt), STR_card)
    THEN <<"// Generated card component placeholder">>
    ELSE generate_generic_response(prompt)

Min(a, b) == IF a < b THEN a ELSE b

\* Mutant of AIModel::generate: the token count is not capped.
AIModel_respond_nocap(m, prompt, max_tokens, elapsed) ==
    [content |-> generate_generic_response(prompt),
     tokens |-> max_tokens,
     time_ms |-> elapsed,
     model |-> AIModelType_to_string(m.model_type)]

\* AIModel::generate after its load step: classification, formatting and
\* the AIResponse.  `elapsed` is the measured wall-clock time in ms.
AIModel_respond(m, prompt, max_tokens, elapsed) ==
    LET response ==
            IF m.model_type.variant \in {"Phi3Mini", "Phi3Small", "Phi3Medium"}
            THEN generate_phi3_response(prompt)
            ELSE generate_generic_response(prompt)
    IN [content |-> response,
        tokens |-> Min(max_tokens, TokenCeiling),
        time_ms |-> elapsed,
        model |-> AIModelType_to_string(m.model_type)]


\* ------------------------------------------------------------------- state
VARIABLES
    \* web server (src/src/web.rs)
    enable_ai,        \* start_web_server's enable_ai argument
    server,           \* "start" before routes are served, then "serving"
    ai_model,         \* WebState.ai_model: the slot's content, None or Some(engine)
    ai_model_writer,  \* the task holding WebState.ai_model's write guard, or NoTask
    httpPc,           \* per HTTP request: position in handle_generate
    httpReq,          \* per HTTP request: the parsed GenerateRequest
    httpResp,         \* per HTTP request: the reply or rejection
    wsPc,             \* per session: position in handle_websocket
    wsCur,            \* per session: the last inbound message received
    wsOut,            \* per session: frames passed to tx.send since wsCur arrived
    wsResp,           \* per session: handle_ws_generate's `response` value
    wsSends,          \* per session: "failed" once a tx.send(..).await of the session
                      \* returned Err, "ok" before; "unrecorded" where the Results,
                      \* which no code reads, are not kept
    wsClosed,         \* per session: the inbound stream has ended (rx.next() yields no more messages)
    httpBody,         \* per HTTP request: the request body as received
    projects,         \* WebState.projects: the project list
    projects_readers, \* the tasks holding a read guard of WebState.projects
    \* directly driven engine (src/src/commands.rs)
    engPc,            \* "off" | "new" | "ready" | "generating"
    engName,          \* the model name given to AIModel::new
    engine,           \* the AIModel instance, None before construction
    engReq,           \* arguments of the generate call in progress
    engLast,          \* the last completed call and what it returned
    engLoads,         \* how many times the simulated load work ran
    engCalls          \* load / generate calls started so far

webVars == <<enable_ai, server, ai_model, ai_model_writer, httpPc, httpReq,
             httpResp, wsPc, wsCur, wsOut, wsResp, wsClosed, httpBody,
             projects, projects_readers, wsSends>>
engVars == <<engPc, engName, engine, engReq, engLast, engLoads, engCalls>>
vars == <<webVars, engVars>>

\* ------------------------------------------------- directly driven engine
\* Model names handed to AIModel::new: the built-in names in several
\* casings, custom names with and without capitals, the empty name.
ModelNames ==
    { STR_phi3mini,
      <<"P","H","I","-","3","-","M","I","N","I">>,
      <<"P","h","i","-","3","-","S","m","a","l","l">>,
      STR_phi3medium,
      <<"g","p","t">>,
      <<"M","y","L","M">>,
      <<>> }

\* Prompts: keyword hits in several casings, both keywords, near misses.
Prompts ==
    { STR_login,
      <<"L","o","G","i","n">>,
      STR_card,
      <<"c","a","r","d","l","o","g","i","n">>,
      <<"l","o","g","i">>,
      <<"h","i">>,
      <<>> }

\* Token budgets: around the ceiling, and the budgets commands.rs passes.
Budgets == {0, 1, 499, 500, 501, 1000, 1500, 2000}

Elapsed == 0..MaxElapsedMs

\* the elapsed times the web handlers' generate calls measure
WebElapsed == {0, MaxElapsedMs}

NoReq == [prompt |-> <<>>, max_tokens |-> 0]
NoCall == [op |-> "none"]

EngOff ==
    /\ engPc = "off"
    /\ engName = <<>>
    /\ engine = None
    /\ engReq = NoReq
    /\ engLast = NoCall
    /\ engLoads = 0
    /\ engCalls = 0

\* commands.rs: AIModel::new(model).await?
EngNew(name) ==
    /\ engPc = "new"
    /\ LET r == AIModel_new(name)
       IN /\ engine' = IF r.ok THEN Some(r.model) ELSE None
          /\ engPc' = IF r.ok THEN "ready" ELSE "failed"
    /\ engName' = name
    /\ UNCHANGED <<engReq, engLast, engLoads, engCalls, webVars>>

\* ai_model.load().await on the constructed engine
EngLoad ==
    /\ engPc = "ready"
    /\ engCalls < MaxCalls
    /\ LET r == AIModel_load(engine.val)
       IN /\ engine' = Some(r.model)
          /\ engLoads' = engLoads + (IF r.slept THEN 1 ELSE 0)
          /\ engLast' = [op |-> "load", ok |-> r.ok]
    /\ engCalls' = engCalls + 1
    /\ UNCHANGED <<engPc, engName, engReq, webVars>>

\* ai_model.generate(prompt, n): its first statement, self.load().await?
EngGenerateLoad(prompt, n) ==
    /\ engPc = "ready"
    /\ engCalls < MaxCalls
    /\ LET r == AIModel_load(engine.val)
       IN /\ engine' = Some(r.model)
          /\ engLoads' = engLoads + (IF r.slept THEN 1 ELSE 0)
          /\ IF r.ok
             THEN /\ engPc' = "generating"
                  /\ engReq' = [prompt |-> prompt, max_tokens |-> n]
                  /\ engLast' = engLast
             ELSE /\ engPc' = "ready"
                  /\ engReq' = NoReq
                  /\ engLast' = [op |-> "generate", ok |-> FALSE]
    /\ engCalls' = engCalls + 1
    /\ UNCHANGED <<engName, webVars>>

\* ai_model.generate(prompt, n): classification, formatting, Ok(AIResponse)
EngGenerateRespond(elapsed) ==
    /\ engPc = "generating"
    /\ engLast' = [op |-> "generate", ok |-> TRUE,
                   prompt |-> engReq.prompt, max_tokens |-> engReq.max_tokens,
                   response |-> AIModel_respond(engine.val, engReq.prompt,
                                                engReq.max_tokens, elapsed)]
    /\ engPc' = "ready"
    /\ engReq' = NoReq
    /\ UNCHANGED <<engName, engine, engLoads, engCalls, webVars>>

EngNext ==
    \/ \E name \in ModelNames : EngNew(name)
    \/ EngLoad
    \/ \E p \in Prompts, n \in Budgets : EngGenerateLoad(p, n)
    \/ \E e \in Elapsed : EngGenerateRespond(e)

\* -------------------------------------------------------------- web server
\* One task per inbound connection; warp's routes make it an HTTP
\* /api/generate handler or a WebSocket session.
NoTask == 0
Tasks == 1..NumClients
Http == Tasks
Ws == Tasks

\* Uuid::new_v4(): a fresh identifier per session
NewUuid(s) == <<"uuid", s>>

\* JSON values as serde_json::Value::get(..).and_then(as_str) sees them
JAbsent == [t |-> "absent", s |-> <<>>]
JNum == [t |-> "number", s |-> <<>>]
JStr(s) == [t |-> "string", s |-> s]

\* Value::get(key).and_then(|v| v.as_str())
as_str(v) == IF v.t = "string" THEN Some(v.s) ELSE None

\* Inbound WebSocket messages.  A text message either fails to parse as
\* JSON (with serde_json's error text) or parses to a value of which the
\* handler reads the fields type, prompt and framework.
BinaryMsg == [kind |-> "binary", valid |-> FALSE, err |-> <<>>,
              type |-> JAbsent, prompt |-> JAbsent, framework |-> JAbsent]
BadText == [kind |-> "text", valid |-> FALSE,
            err |-> <<"expected value at line 1 column 1">>,
            type |-> JAbsent, prompt |-> JAbsent, framework |-> JAbsent]
JsonText(type, prompt, framework) ==
    [kind |-> "text", valid |-> TRUE, err |-> <<>>,
     type |-> type, prompt |-> prompt, framework |-> framework]

STR_generate == <<"g","e","n","e","r","a","t","e">>
STR_ping == <<"p","i","n","g">>
STR_react == <<"r","e","a","c","t">>
STR_loginForm == <<"l","o","g","i","n"," ","f","o","r","m">>
STR_navbar == <<"n","a","v","b","a","r">>
STR_vue == <<"v","u","e">>
STR_gpt == <<"g","p","t">>

WebPrompts == {STR_loginForm, STR_navbar}

Inbound ==
    { BinaryMsg, BadText,
      JsonText(JStr(STR_ping), JAbsent, JAbsent),
      JsonText(JAbsent, JStr(STR_navbar), JStr(STR_react)),
      JsonText(JNum, JStr(STR_navbar), JStr(STR_react)),
      JsonText(JStr(STR_generate), JAbsent, JStr(STR_react)),
      JsonText(JStr(STR_generate), JStr(STR_navbar), JNum),
      JsonText(JStr(STR_generate), JStr(STR_navbar), JStr(STR_vue)) }
    \cup { JsonText(JStr(STR_generate), JStr(p), JStr(STR_react)) : p \in WebPrompts }

NoMsg == [kind |-> "none", valid |-> FALSE, err |-> <<>>,
          type |-> JAbsent, prompt |-> JAbsent, framework |-> JAbsent]

\* serde_json::from_str::<Value>(text)
from_str(text) ==
    IF text.valid THEN [ok |-> TRUE, data |-> text, err |-> <<>>]
    ELSE [ok |-> FALSE, data |-> NoMsg, err |-> text.err]

\* Outbound frames (serde_json::json! objects)
ConnectedFrame(id) ==
    [type |-> "connected", client_id |-> id,
     message |-> <<"Connected to Nexus Studio AI">>]
GeneratingFrame ==
    [type |-> "generating", message |-> <<"AI is generating code...">>]
GeneratedFrame(r) ==
    [type |-> "generated", code |-> r.content, tokens |-> r.tokens,
     time_ms |-> r.time_ms, model |-> r.model]
ErrorFrame(msg) == [type |-> "error", message |-> msg]
NoFrame == [type |-> "none"]

\* HTTP request bodies: text that is JSON or not, of which the
\* GenerateRequest deserializer reads prompt, framework and model.
JsonBody(prompt, framework, model) ==
    [valid |-> TRUE, prompt |-> prompt, framework |-> framework, model |-> model]
BadBody == [valid |-> FALSE, prompt |-> JAbsent, framework |-> JAbsent,
            model |-> JAbsent]
NoBody == [valid |-> FALSE, prompt |-> JAbsent, framework |-> JAbsent,
           model |-> JNum]

HttpBodies ==
    { BadBody,
      JsonBody(JAbsent, JStr(STR_react), JAbsent),
      JsonBody(JStr(STR_navbar), JNum, JAbsent),
      JsonBody(JStr(STR_navbar), JStr(STR_vue), JStr(STR_gpt)) }
    \cup { JsonBody(JStr(p), JStr(STR_react), JAbsent) : p \in WebPrompts }

NoRequest == [prompt |-> <<>>, framework |-> <<>>, model |-> None]

\* Mutant: fields that are absent or not strings default to the empty string.
body_json_lenient(body) ==
    IF body.valid
    THEN [ok |-> TRUE,
          request |-> [prompt |-> IF body.prompt.t = "string"
                                  THEN body.prompt.s ELSE <<>>,
                       framework |-> IF body.framework.t = "string"
                                     THEN body.framework.s ELSE <<>>,
                       model |-> as_str(body.model)]]
    ELSE [ok |-> FALSE, request |-> NoRequest]

\* warp::body::json::<GenerateRequest>(): prompt and framework must be
\* strings, model a string or absent.
body_json(body) ==
    IF /\ body.valid
       /\ body.prompt.t = "string"
       /\ body.framework.t = "string"
       /\ body.model.t \in {"string", "absent"}
    THEN [ok |-> TRUE,
          request |-> [prompt |-> body.prompt.s,
                       framework |-> body.framework.s,
                       model |-> as_str(body.model)]]
    ELSE [ok |-> FALSE, request |-> NoRequest]

\* HTTP replies
NoReply == [status |-> 0]
JsonReply(resp) == [status |-> 200, body |-> resp]
Rejection == [status |-> 500]
BadRequest == [status |-> 400]

WebOff ==
    /\ enable_ai = FALSE
    /\ server = "off"
    /\ ai_model = None
    /\ ai_model_writer = NoTask
    /\ httpPc = [h \in Http |-> "idle"]
    /\ httpReq = [h \in Http |-> NoRequest]
    /\ httpResp = [h \in Http |-> NoReply]
    /\ wsPc = [s \in Ws |-> "none"]
    /\ wsCur = [s \in Ws |-> NoMsg]
    /\ wsOut = [s \in Ws |-> <<>>]
    /\ wsResp = [s \in Ws |-> NoFrame]
    /\ wsClosed = [s \in Ws |-> FALSE]
    /\ wsSends = [s \in Ws |-> "unrecorded"]
    /\ httpBody = [h \in Http |-> NoBody]
    /\ projects = <<>>
    /\ projects_readers = {}

WebInit ==
    /\ enable_ai \in BOOLEAN
    /\ server = "start"
    /\ ai_model = None
    /\ ai_model_writer = NoTask
    /\ httpPc = [h \in Http |-> "idle"]
    /\ httpReq = [h \in Http |-> NoRequest]
    /\ httpResp = [h \in Http |-> NoReply]
    /\ wsPc = [s \in Ws |-> "none"]
    /\ wsCur = [s \in Ws |-> NoMsg]
    /\ wsOut = [s \in Ws |-> <<>>]
    /\ wsResp = [s \in Ws |-> NoFrame]
    /\ wsClosed = [s \in Ws |-> FALSE]
    /\ httpBody = [h \in Http |-> NoBody]
    /\ projects = <<>>
    /\ projects_readers = {}

\* Mutant of the lock acquisition: granted while another guard is live.
AcquireWrite_nowait(t) ==
    ai_model_writer' = t

\* RwLock::write().await completes for task t: no other guard is live
AcquireWrite(t) ==
    /\ ai_model_writer = NoTask
    /\ ai_model_writer' = t

\* Mutant of the guard drop: the guard is leaked.
ReleaseWrite_leak(t) ==
    ai_model_writer' = ai_model_writer

\* the write guard of task t is dropped
ReleaseWrite(t) ==
    ai_model_writer' = IF ai_model_writer = t THEN NoTask ELSE ai_model_writer

\* start_web_server up to warp::serve: with enable_ai the engine is built,
\* loaded and stored in the slot before any route is served.
StartWebServer ==
    /\ server = "start"
    /\ IF enable_ai
       THEN LET made == AIModel_new(STR_phi3mini)
                loaded == AIModel_load(made.model)
            IN IF made.ok /\ loaded.ok
               THEN /\ ai_model' = Some(loaded.model)
                    /\ server' = "serving"
               ELSE /\ ai_model' = ai_model
                    /\ server' = "failed"
       ELSE /\ ai_model' = ai_model
            /\ server' = "serving"
    /\ UNCHANGED <<enable_ai, ai_model_writer, httpPc, httpReq, httpResp,
                   wsPc, wsCur, wsOut, wsResp, wsClosed, httpBody,
                   projects, projects_readers, wsSends, engVars>>

\* ---------------------------------------------------- POST /api/generate
\* The generate route: warp::body::json() deserializes the body; on
\* success handle_generate is called and first awaits the write lock, on
\* failure the filter rejects and handle_generate is not called.
HttpRequest(h, body) ==
    /\ server = "serving"
    /\ httpPc[h] = "idle"
    /\ wsPc[h] = "none"
    /\ httpBody' = [httpBody EXCEPT ![h] = body]
    /\ LET parsed == body_json(body)
       IN IF parsed.ok
          THEN /\ httpReq' = [httpReq EXCEPT ![h] = parsed.request]
               /\ httpPc' = [httpPc EXCEPT ![h] = "acquire"]
               /\ httpResp' = httpResp
          ELSE /\ httpReq' = httpReq
               /\ httpPc' = [httpPc EXCEPT ![h] = "done"]
               /\ httpResp' = [httpResp EXCEPT ![h] = BadRequest]
    /\ UNCHANGED <<enable_ai, server, ai_model, ai_model_writer,
                   wsPc, wsCur, wsOut, wsResp, wsClosed,
                   projects, projects_readers, wsSends, engVars>>

\* Mutant: list_projects starts only while the engine lock is free.
HttpProjects_viaEngine(h) ==
    /\ server = "serving"
    /\ httpPc[h] = "idle"
    /\ wsPc[h] = "none"
    /\ ai_model_writer = NoTask
    /\ projects_readers' = projects_readers \cup {h}
    /\ httpPc' = [httpPc EXCEPT ![h] = "reading"]
    /\ UNCHANGED <<enable_ai, server, ai_model, ai_model_writer, httpReq, httpResp,
                   wsPc, wsCur, wsOut, wsResp, wsClosed, httpBody,
                   projects, projects_readers, wsSends, engVars>>

\* Mutant: list_projects takes the list exclusively.
HttpProjects_exclusive(h) ==
    /\ server = "serving"
    /\ httpPc[h] = "idle"
    /\ wsPc[h] = "none"
    /\ projects_readers = {}
    /\ projects_readers' = projects_readers \cup {h}
    /\ httpPc' = [httpPc EXCEPT ![h] = "reading"]
    /\ UNCHANGED <<enable_ai, server, ai_model, ai_model_writer, httpReq, httpResp,
                   wsPc, wsCur, wsOut, wsResp, wsClosed, httpBody,
                   projects, wsSends, engVars>>

\* GET /api/projects, list_projects: state.projects.read().await returns a
\* read guard at once, this core having no writer of the list.
HttpProjects(h) ==
    /\ server = "serving"
    /\ httpPc[h] = "idle"
    /\ wsPc[h] = "none"
    /\ projects_readers' = projects_readers \cup {h}
    /\ httpPc' = [httpPc EXCEPT ![h] = "reading"]
    /\ UNCHANGED <<enable_ai, server, ai_model, ai_model_writer, httpReq, httpResp,
                   wsPc, wsCur, wsOut, wsResp, wsClosed, httpBody,
                   projects, wsSends, engVars>>

\* list_projects: the JSON reply of the list; the read guard is dropped
ProjectsReply(h) ==
    /\ httpPc[h] = "reading"
    /\ httpResp' = [httpResp EXCEPT ![h] = JsonReply(projects)]
    /\ projects_readers' = projects_readers \ {h}
    /\ httpPc' = [httpPc EXCEPT ![h] = "done"]
    /\ UNCHANGED <<enable_ai, server, ai_model, ai_model_writer, httpReq,
                   wsPc, wsCur, wsOut, wsResp, wsClosed, httpBody,
                   projects, wsSends, engVars>>

\* Mutant: a handler that finds the lock taken gives up with a rejection.
HttpAcquire_timeout(h) ==
    /\ httpPc[h] = "acquire"
    /\ IF ai_model_writer = NoTask
       THEN /\ AcquireWrite(h)
            /\ httpPc' = [httpPc EXCEPT ![h] = "locked"]
            /\ httpResp' = httpResp
       ELSE /\ ai_model_writer' = ai_model_writer
            /\ httpPc' = [httpPc EXCEPT ![h] = "done"]
            /\ httpResp' = [httpResp EXCEPT ![h] = Rejection]
    /\ UNCHANGED <<enable_ai, server, ai_model, httpReq,
                   wsPc, wsCur, wsOut, wsResp, wsClosed, httpBody,
                   projects, projects_readers, wsSends, engVars>>

\* handle_generate: state.ai_model.write().await returns the guard
HttpAcquire(h) ==
    /\ httpPc[h] = "acquire"
    /\ AcquireWrite(h)
    /\ httpPc' = [httpPc EXCEPT ![h] = "locked"]
    /\ UNCHANGED <<enable_ai, server, ai_model, httpReq, httpResp,
                   wsPc, wsCur, wsOut, wsResp, wsClosed, httpBody,
                   projects, projects_readers, wsSends, engVars>>

\* handle_generate, Some arm: generate's self.load().await?; an Err leaves
\* the handler through `?` with a rejection, dropping the guard.
HttpGenerateLoad(h) ==
    /\ httpPc[h] = "locked"
    /\ ai_model.some
    /\ LET r == AIModel_load(ai_model.val)
       IN IF r.ok
          THEN /\ ai_model' = Some(r.model)
               /\ httpPc' = [httpPc EXCEPT ![h] = "generating"]
               /\ UNCHANGED <<ai_model_writer, httpResp>>
          ELSE /\ ai_model' = Some(r.model)
               /\ httpPc' = [httpPc EXCEPT ![h] = "done"]
               /\ httpResp' = [httpResp EXCEPT ![h] = Rejection]
               /\ ReleaseWrite(h)
    /\ UNCHANGED <<enable_ai, server, httpReq,
                   wsPc, wsCur, wsOut, wsResp, wsClosed, httpBody,
                   projects, projects_readers, wsSends, engVars>>

\* Mutant: the handler asks the engine for the prompt in the named framework.
HttpGenerateRespond_framework(h, elapsed) ==
    /\ httpPc[h] = "generating"
    /\ LET ai_response == AIModel_respond(ai_model.val,
                                          httpReq[h].framework \o <<": ">>
                                              \o httpReq[h].prompt,
                                          WebMaxTokens, elapsed)
       IN httpResp' = [httpResp EXCEPT ![h] =
                          JsonReply([code |-> ai_response.content,
                                     tokens |-> ai_response.tokens,
                                     time_ms |-> ai_response.time_ms])]
    /\ ReleaseWrite(h)
    /\ httpPc' = [httpPc EXCEPT ![h] = "done"]
    /\ UNCHANGED <<enable_ai, server, ai_model, httpReq,
                   wsPc, wsCur, wsOut, wsResp, wsClosed, httpBody,
                   projects, projects_readers, wsSends, engVars>>

\* handle_generate, Some arm: generate returns Ok, the GenerateResponse is
\* built, the guard is dropped at the end of the match, the reply is made.
HttpGenerateRespond(h, elapsed) ==
    /\ httpPc[h] = "generating"
    /\ LET ai_response == AIModel_respond(ai_model.val, httpReq[h].prompt,
                                          WebMaxTokens, elapsed)
       IN httpResp' = [httpResp EXCEPT ![h] =
                          JsonReply([code |-> ai_response.content,
                                     tokens |-> ai_response.tokens,
                                     time_ms |-> ai_response.time_ms])]
    /\ ReleaseWrite(h)
    /\ httpPc' = [httpPc EXCEPT ![h] = "done"]
    /\ UNCHANGED <<enable_ai, server, ai_model, httpReq,
                   wsPc, wsCur, wsOut, wsResp, wsClosed, httpBody,
                   projects, projects_readers, wsSends, engVars>>

\* Mutant: the placeholder names the prompt but not the framework.
HttpPlaceholder_noframework(h) ==
    /\ httpPc[h] = "locked"
    /\ ~ai_model.some
    /\ httpResp' = [httpResp EXCEPT ![h] =
                       JsonReply([code |-> <<"// AI not enabled\n// Request: ">>
                                           \o httpReq[h].prompt,
                                  tokens |-> 0,
                                  time_ms |-> 0])]
    /\ ReleaseWrite(h)
    /\ httpPc' = [httpPc EXCEPT ![h] = "done"]
    /\ UNCHANGED <<enable_ai, server, ai_model, httpReq,
                   wsPc, wsCur, wsOut, wsResp, wsClosed, httpBody,
                   projects, projects_readers, wsSends, engVars>>

\* Mutant: a handler that finds the slot empty builds and stores an engine.
HttpPlaceholder_lazy(h) ==
    /\ httpPc[h] = "locked"
    /\ ~ai_model.some
    /\ ai_model' = Some(AIModel_load(AIModel_new(STR_phi3mini).model).model)
    /\ httpResp' = [httpResp EXCEPT ![h] =
                       JsonReply([code |-> <<"// AI not enabled\n// Request: ">>
                                           \o httpReq[h].prompt
                                           \o <<"\n// Framework: ">>
                                           \o httpReq[h].framework,
                                  tokens |-> 0,
                                  time_ms |-> 0])]
    /\ ReleaseWrite(h)
    /\ httpPc' = [httpPc EXCEPT ![h] = "done"]
    /\ UNCHANGED <<enable_ai, server, httpReq,
                   wsPc, wsCur, wsOut, wsResp, wsClosed, httpBody,
                   projects, projects_readers, wsSends, engVars>>

\* handle_generate, None arm: the placeholder response
HttpPlaceholder(h) ==
    /\ httpPc[h] = "locked"
    /\ ~ai_model.some
    /\ httpResp' = [httpResp EXCEPT ![h] =
                       JsonReply([code |-> <<"// AI not enabled\n// Request: ">>
                                           \o httpReq[h].prompt
                                           \o <<"\n// Framework: ">>
                                           \o httpReq[h].framework,
                                  tokens |-> 0,
                                  time_ms |-> 0])]
    /\ ReleaseWrite(h)
    /\ httpPc' = [httpPc EXCEPT ![h] = "done"]
    /\ UNCHANGED <<enable_ai, server, ai_model, httpReq,
                   wsPc, wsCur, wsOut, wsResp, wsClosed, httpBody,
                   projects, projects_readers, wsSends, engVars>>

\* ------------------------------------------------------------ WebSocket
\* the Result of a tx.send(..).await, Ok or Err as the connection decides;
\* the caller discards it (`let _ =`)
SendResult(s) ==
    \E result \in IF wsSends[s] = "ok" THEN {"ok", "failed"} ELSE {wsSends[s]} :
        wsSends' = [wsSends EXCEPT ![s] = result]

\* tx.send(frame).await
Send(s, frame) ==
    /\ wsOut' = [wsOut EXCEPT ![s] = Append(@, frame)]
    /\ SendResult(s)

\* the first tx.send(frame).await made for a newly received message
SendFirst(s, frame) ==
    /\ wsOut' = [wsOut EXCEPT ![s] = <<frame>>]
    /\ SendResult(s)

\* Mutant: the session enters its receive loop without the connected frame.
WsUpgrade_noack(s) ==
    /\ server = "serving"
    /\ wsPc[s] = "none"
    /\ httpPc[s] = "idle"
    /\ wsPc' = [wsPc EXCEPT ![s] = "recv"]
    /\ UNCHANGED <<enable_ai, server, ai_model, ai_model_writer, httpPc, httpReq,
                   httpResp, wsCur, wsOut, wsResp, wsClosed, httpBody,
                   projects, projects_readers, wsSends, engVars>>

\* handle_websocket up to the receive loop: client id, connected frame
WsUpgrade(s) ==
    /\ server = "serving"
    /\ wsPc[s] = "none"
    /\ httpPc[s] = "idle"
    /\ Send(s, ConnectedFrame(NewUuid(s)))
    /\ wsPc' = [wsPc EXCEPT ![s] = "recv"]
    /\ UNCHANGED <<enable_ai, server, ai_model, ai_model_writer, httpPc, httpReq,
                   httpResp, wsCur, wsResp, wsClosed, httpBody,
                   projects, projects_readers, engVars>>

\* Mutant: the end of the connection drops the session task where it stands,
\* its guard with it.
TransportClose_abort(s) ==
    /\ wsPc[s] \notin {"none", "disconnected"}
    /\ ~wsClosed[s]
    /\ wsClosed' = [wsClosed EXCEPT ![s] = TRUE]
    /\ wsPc' = [wsPc EXCEPT ![s] = "disconnected"]
    /\ ai_model_writer' = IF ai_model_writer = s THEN NoTask ELSE ai_model_writer
    /\ wsResp' = [wsResp EXCEPT ![s] = NoFrame]
    /\ UNCHANGED <<enable_ai, server, ai_model, httpPc, httpReq,
                   httpResp, wsCur, wsOut, httpBody,
                   projects, projects_readers, wsSends, engVars>>

\* The peer closes the connection or the transport fails while the session
\* is inside handle_ws_generate: the inbound stream has no further message.
\* The session task is not told; it finds out at its next rx.next().await.
\* (While the session waits in rx.next(), the end of the stream and its
\* delivery are the one step WsRecvEnd or WsRecvError.)
TransportClose(s) ==
    /\ wsPc[s] \in {"acquire", "locked", "generating", "send"}
    /\ ~wsClosed[s]
    /\ wsClosed' = [wsClosed EXCEPT ![s] = TRUE]
    /\ UNCHANGED <<enable_ai, server, ai_model, ai_model_writer, httpPc, httpReq,
                   httpResp, wsPc, wsCur, wsOut, wsResp, httpBody,
                   projects, projects_readers, wsSends, engVars>>

\* Mutant: a receive error is logged and the loop goes on.
WsRecvError_continue(s) ==
    /\ wsPc[s] = "recv"
    /\ wsClosed' = [wsClosed EXCEPT ![s] = TRUE]
    /\ UNCHANGED <<enable_ai, server, ai_model, ai_model_writer, httpPc, httpReq,
                   httpResp, wsPc, wsCur, wsOut, wsResp, httpBody,
                   projects, projects_readers, wsSends, engVars>>

\* Mutant: a receive error of one session ends every session that waits in
\* its receive loop.
WsRecvError_all(s) ==
    /\ wsPc[s] = "recv"
    /\ wsClosed' = [u \in Ws |-> wsClosed[u] \/ wsPc[u] = "recv"]
    /\ wsPc' = [u \in Ws |-> IF wsPc[u] = "recv" THEN "disconnected" ELSE wsPc[u]]
    /\ wsCur' = [u \in Ws |-> IF wsPc[u] = "recv" THEN NoMsg ELSE wsCur[u]]
    /\ wsOut' = [u \in Ws |-> IF wsPc[u] = "recv" THEN <<>> ELSE wsOut[u]]
    /\ UNCHANGED <<enable_ai, server, ai_model, ai_model_writer, httpPc, httpReq,
                   httpResp, wsResp, httpBody,
                   projects, projects_readers, wsSends, engVars>>

\* rx.next().await yields Some(Err(e)): break
WsRecvError(s) ==
    /\ wsPc[s] = "recv"
    /\ wsClosed' = [wsClosed EXCEPT ![s] = TRUE]
    /\ wsPc' = [wsPc EXCEPT ![s] = "disconnected"]
    /\ wsCur' = [wsCur EXCEPT ![s] = NoMsg]
    /\ wsOut' = [wsOut EXCEPT ![s] = <<>>]
    /\ UNCHANGED <<enable_ai, server, ai_model, ai_model_writer, httpPc, httpReq,
                   httpResp, wsResp, httpBody,
                   projects, projects_readers, wsSends, engVars>>

\* rx.next().await yields None: the loop ends
WsRecvEnd(s) ==
    /\ wsPc[s] = "recv"
    /\ wsClosed' = [wsClosed EXCEPT ![s] = TRUE]
    /\ wsPc' = [wsPc EXCEPT ![s] = "disconnected"]
    /\ wsCur' = [wsCur EXCEPT ![s] = NoMsg]
    /\ wsOut' = [wsOut EXCEPT ![s] = <<>>]
    /\ UNCHANGED <<enable_ai, server, ai_model, ai_model_writer, httpPc, httpReq,
                   httpResp, wsResp, httpBody,
                   projects, projects_readers, wsSends, engVars>>

\* Mutant: malformed JSON is dropped without an error frame.
WsInvalidJson_silent(s, err) ==
    /\ wsOut' = [wsOut EXCEPT ![s] = <<>>]
    /\ wsPc' = [wsPc EXCEPT ![s] = "recv"]
    /\ wsSends' = wsSends

\* handle_websocket_message, Err(e) arm: the "Invalid JSON" error frame
WsInvalidJson(s, err) ==
    /\ SendFirst(s, ErrorFrame(<<"Invalid JSON: ">> \o err))
    /\ wsPc' = [wsPc EXCEPT ![s] = "recv"]

\* Mutant: an unknown type ends the session after the error frame.
WsUnknownType_close(s, msg_type) ==
    /\ SendFirst(s, ErrorFrame(<<"Unknown message type: ">> \o msg_type))
    /\ wsPc' = [wsPc EXCEPT ![s] = "disconnected"]

\* handle_websocket_message, `_` arm: the "Unknown message type" error frame
WsUnknownType(s, msg_type) ==
    /\ SendFirst(s, ErrorFrame(<<"Unknown message type: ">> \o msg_type))
    /\ wsPc' = [wsPc EXCEPT ![s] = "recv"]

\* Mutant: a frame no arm applies to is answered with an error frame.
WsNoReply_error(s) ==
    /\ SendFirst(s, ErrorFrame(<<"Missing required fields">>))
    /\ wsPc' = [wsPc EXCEPT ![s] = "recv"]

\* Mutant: a frame no arm applies to ends the session.
WsNoReply_close(s) ==
    /\ wsOut' = [wsOut EXCEPT ![s] = <<>>]
    /\ wsPc' = [wsPc EXCEPT ![s] = "disconnected"]
    /\ wsSends' = wsSends

\* handle_websocket_message: no arm applies (no string type, or a generate
\* frame without string prompt and framework); nothing is sent.
WsNoReply(s) ==
    /\ wsOut' = [wsOut EXCEPT ![s] = <<>>]
    /\ wsPc' = [wsPc EXCEPT ![s] = "recv"]
    /\ wsSends' = wsSends

\* Mutant: the generating frame is not sent.
WsGenerating_silent(s) ==
    /\ wsOut' = [wsOut EXCEPT ![s] = <<>>]
    /\ wsPc' = [wsPc EXCEPT ![s] = "acquire"]
    /\ wsSends' = wsSends

\* handle_ws_generate up to its wait for the write lock: the generating frame
WsGenerating(s) ==
    /\ SendFirst(s, GeneratingFrame)
    /\ wsPc' = [wsPc EXCEPT ![s] = "acquire"]

\* Mutant: a message without a string "type" is handled as one whose type
\* is the empty string.
handle_websocket_message_notype(s, text) ==
    LET parsed == from_str(text)
        msg_type == as_str(parsed.data.type)
        prompt == as_str(parsed.data.prompt)
        framework == as_str(parsed.data.framework)
    IN IF ~parsed.ok THEN WsInvalidJson(s, parsed.err)
       ELSE IF ~msg_type.some THEN WsUnknownType(s, <<>>)
       ELSE IF msg_type.val = STR_generate
       THEN IF prompt.some /\ framework.some
            THEN WsGenerating(s)
            ELSE WsNoReply(s)
       ELSE WsUnknownType(s, msg_type.val)

\* handle_websocket_message: parse and dispatch
handle_websocket_message(s, text) ==
    LET parsed == from_str(text)
        msg_type == as_str(parsed.data.type)
        prompt == as_str(parsed.data.prompt)
        framework == as_str(parsed.data.framework)
    IN IF ~parsed.ok THEN WsInvalidJson(s, parsed.err)
       ELSE IF ~msg_type.some THEN WsNoReply(s)
       ELSE IF msg_type.val = STR_generate
       THEN IF prompt.some /\ framework.some
            THEN WsGenerating(s)
            ELSE WsNoReply(s)
       ELSE WsUnknownType(s, msg_type.val)

\* Mutant: the next message is taken while the result of the previous
\* generate frame is still to be sent.
WsRecv_early(s, msg) ==
    /\ wsPc[s] \in {"recv", "send"}
    /\ ~wsClosed[s]
    /\ wsCur' = [wsCur EXCEPT ![s] = msg]
    /\ IF msg.kind = "text"
       THEN handle_websocket_message(s, msg)
       ELSE WsNoReply(s)
    /\ UNCHANGED <<enable_ai, server, ai_model, ai_model_writer, httpPc, httpReq,
                   httpResp, wsResp, wsClosed, httpBody,
                   projects, projects_readers, engVars>>

\* rx.next().await yields Some(Ok(msg)): a text message is handled by
\* handle_websocket_message (for a complete generate frame up to the wait
\* for the write lock), any other message is skipped.  wsOut restarts with
\* each message received.
WsRecv(s, msg) ==
    /\ wsPc[s] = "recv"
    /\ ~wsClosed[s]
    /\ wsCur' = [wsCur EXCEPT ![s] = msg]
    /\ IF msg.kind = "text"
       THEN handle_websocket_message(s, msg)
       ELSE WsNoReply(s)
    /\ UNCHANGED <<enable_ai, server, ai_model, ai_model_writer, httpPc, httpReq,
                   httpResp, wsResp, wsClosed, httpBody,
                   projects, projects_readers, engVars>>

\* handle_ws_generate: state.ai_model.write().await returns the guard
WsAcquire(s) ==
    /\ wsPc[s] = "acquire"
    /\ AcquireWrite(s)
    /\ wsPc' = [wsPc EXCEPT ![s] = "locked"]
    /\ UNCHANGED <<enable_ai, server, ai_model, httpPc, httpReq, httpResp,
                   wsCur, wsOut, wsResp, wsClosed, httpBody,
                   projects, projects_readers, wsSends, engVars>>

\* Mutant: the guard is dropped after the load step, before generation.
WsGenerateLoad_split(s) ==
    /\ wsPc[s] = "locked"
    /\ ai_model.some
    /\ ai_model' = Some(AIModel_load(ai_model.val).model)
    /\ wsPc' = [wsPc EXCEPT ![s] = "generating"]
    /\ ai_model_writer' = NoTask
    /\ UNCHANGED <<enable_ai, server, httpPc, httpReq, httpResp,
                   wsCur, wsOut, wsResp, wsClosed, httpBody,
                   projects, projects_readers, wsSends, engVars>>

\* handle_ws_generate, Some arm: generate's self.load().await?; an Err
\* becomes the "AI generation failed" frame and the guard is dropped.
WsGenerateLoad(s) ==
    /\ wsPc[s] = "locked"
    /\ ai_model.some
    /\ LET r == AIModel_load(ai_model.val)
       IN IF r.ok
          THEN /\ ai_model' = Some(r.model)
               /\ wsPc' = [wsPc EXCEPT ![s] = "generating"]
               /\ UNCHANGED <<ai_model_writer, wsResp>>
          ELSE /\ ai_model' = Some(r.model)
               /\ wsPc' = [wsPc EXCEPT ![s] = "send"]
               /\ wsResp' = [wsResp EXCEPT ![s] =
                                ErrorFrame(<<"AI generation failed: ", "load">>)]
               /\ ReleaseWrite(s)
    /\ UNCHANGED <<enable_ai, server, httpPc, httpReq, httpResp,
                   wsCur, wsOut, wsClosed, httpBody,
                   projects, projects_readers, wsSends, engVars>>

\* handle_ws_generate, Some arm: generate returns Ok, the generated frame
\* is built and the guard is dropped at the end of the match.
WsGenerateRespond(s, elapsed) ==
    /\ wsPc[s] = "generating"
    /\ wsResp' = [wsResp EXCEPT ![s] =
                     GeneratedFrame(AIModel_respond(ai_model.val, wsCur[s].prompt.s,
                                                    WebMaxTokens, elapsed))]
    /\ ReleaseWrite(s)
    /\ wsPc' = [wsPc EXCEPT ![s] = "send"]
    /\ UNCHANGED <<enable_ai, server, ai_model, httpPc, httpReq, httpResp,
                   wsCur, wsOut, wsClosed, httpBody,
                   projects, projects_readers, wsSends, engVars>>

\* Mutant: without an engine the session answers with a placeholder
\* "generated" frame, as the HTTP handler does.
WsNotAvailable_placeholder(s) ==
    /\ wsPc[s] = "locked"
    /\ ~ai_model.some
    /\ wsResp' = [wsResp EXCEPT ![s] =
                     GeneratedFrame([content |-> <<"// AI not enabled">>,
                                     tokens |-> 0,
                                     time_ms |-> 0,
                                     model |-> <<"none">>])]
    /\ ReleaseWrite(s)
    /\ wsPc' = [wsPc EXCEPT ![s] = "send"]
    /\ UNCHANGED <<enable_ai, server, ai_model, httpPc, httpReq, httpResp,
                   wsCur, wsOut, wsClosed, httpBody,
                   projects, projects_readers, wsSends, engVars>>

\* Mutant: the None arm sends its error frame itself, before the guard is
\* dropped.
WsNotAvailable_sendlocked(s) ==
    /\ wsPc[s] = "locked"
    /\ ~ai_model.some
    /\ Send(s, ErrorFrame(<<"AI model not available">>))
    /\ ReleaseWrite(s)
    /\ wsPc' = [wsPc EXCEPT ![s] = "recv"]
    /\ UNCHANGED <<enable_ai, server, ai_model, httpPc, httpReq, httpResp,
                   wsCur, wsResp, wsClosed, httpBody,
                   projects, projects_readers, engVars>>

\* handle_ws_generate, None arm
WsNotAvailable(s) ==
    /\ wsPc[s] = "locked"
    /\ ~ai_model.some
    /\ wsResp' = [wsResp EXCEPT ![s] = ErrorFrame(<<"AI model not available">>)]
    /\ ReleaseWrite(s)
    /\ wsPc' = [wsPc EXCEPT ![s] = "send"]
    /\ UNCHANGED <<enable_ai, server, ai_model, httpPc, httpReq, httpResp,
                   wsCur, wsOut, wsClosed, httpBody,
                   projects, projects_readers, wsSends, engVars>>

\* handle_ws_generate: tx.send(response) and return to the receive loop
WsSendResult(s) ==
    /\ wsPc[s] = "send"
    /\ Send(s, wsResp[s])
    /\ wsResp' = [wsResp EXCEPT ![s] = NoFrame]
    /\ wsPc' = [wsPc EXCEPT ![s] = "recv"]
    /\ UNCHANGED <<enable_ai, server, ai_model, ai_model_writer, httpPc, httpReq,
                   httpResp, wsCur, wsClosed, httpBody,
                   projects, projects_readers, engVars>>

\* ---------------------------------------------------------- specifications
Init == WebInit /\ EngOff /\ wsSends = [s \in Ws |-> "unrecorded"]

Next ==
    \/ StartWebServer
    \/ \E h \in Http, body \in HttpBodies : HttpRequest(h, body)
    \/ \E h \in Http : HttpProjects(h)
    \/ \E h \in Http : ProjectsReply(h)
    \/ \E h \in Http : HttpAcquire(h)
    \/ \E h \in Http : HttpGenerateLoad(h)
    \/ \E h \in Http, e \in WebElapsed : HttpGenerateRespond(h, e)
    \/ \E h \in Http : HttpPlaceholder(h)
    \/ \E s \in Ws : WsUpgrade(s)
    \/ \E s \in Ws, msg \in Inbound : WsRecv(s, msg)
    \/ \E s \in Ws : TransportClose(s)
    \/ \E s \in Ws : WsRecvError(s)
    \/ \E s \in Ws : WsRecvEnd(s)
    \/ \E s \in Ws : WsAcquire(s)
    \/ \E s \in Ws : WsGenerateLoad(s)
    \/ \E s \in Ws, e \in WebElapsed : WsGenerateRespond(s, e)
    \/ \E s \in Ws : WsNotAvailable(s)
    \/ \E s \in Ws : WsSendResult(s)

Spec == Init /\ [][Next]_vars

\* the same server with the Result of every tx.send recorded
SendInit == WebInit /\ EngOff /\ wsSends = [s \in Ws |-> "ok"]

SendSpec == SendInit /\ [][Next]_vars

\* the step of task t that ends its wait for the lock
TaskAcquire(t) == HttpAcquire(t) \/ WsAcquire(t)

\* the steps of task t between getting the lock and its reply or result
\* frame; at most one of them is enabled at a time
TaskProceed(t) ==
    \/ HttpGenerateLoad(t)
    \/ \E e \in WebElapsed : HttpGenerateRespond(t, e)
    \/ HttpPlaceholder(t)
    \/ WsGenerateLoad(t)
    \/ \E e \in WebElapsed : WsGenerateRespond(t, e)
    \/ WsNotAvailable(t)
    \/ WsSendResult(t)

\* The server with its scheduling: the runtime runs every handler that can
\* take a step (weak fairness of the steps between two waits), every
\* generate call returns (ai.rs: a match and a format!), and the tokio
\* RwLock queues its waiters, so a waiter is not passed over for ever
\* (strong fairness of the acquisitions).
Fairness ==
    \A t \in Tasks :
        /\ SF_vars(TaskAcquire(t))
        /\ WF_vars(TaskProceed(t))

FairSpec == Init /\ [][Next]_vars /\ Fairness

EngInit ==
    /\ WebOff
    /\ engPc = "new"
    /\ engName = <<>>
    /\ engine = None
    /\ engReq = NoReq
    /\ engLast = NoCall
    /\ engLoads = 0
    /\ engCalls = 0

EngineSpec == EngInit /\ [][EngNext]_vars

\* ------------------------------------------------------------------ claims
TaskPc(t) == IF httpPc[t] # "idle" THEN httpPc[t] ELSE wsPc[t]
TaskPcNext(t) == IF httpPc'[t] # "idle" THEN httpPc'[t] ELSE wsPc'[t]

\* the positions between lock acquisition and guard drop
Critical == {"locked", "generating"}

\* C1: at most one task is inside the section guarded by the engine slot's
\* write lock, that task is the recorded lock holder, and so at most one
\* generate call on the shared engine is in progress at any time.
C1_MutualExclusion ==
    /\ Cardinality({t \in Tasks : TaskPc(t) \in Critical}) <= 1
    /\ Cardinality({t \in Tasks : TaskPc(t) = "generating"}) <= 1
    /\ \A t \in Tasks : TaskPc(t) \in Critical => ai_model_writer = t

\* a generate call in progress while every other task waits for the lock
C1_Witness ==
    \E t \in Tasks :
        /\ TaskPc(t) = "generating"
        /\ \A u \in Tasks \ {t} : TaskPc(u) = "acquire"

\* C2: the load step and the response production of a web-side generate
\* happen inside one write-lock hold: the task holds the lock when it makes
\* the load step, keeps it for as long as it is between the two steps, and
\* no step taken meanwhile changes the engine or the lock holder.
C2_LoadGenerateAtomic ==
    [][\A t \in Tasks :
          /\ (TaskPc(t) = "locked" /\ TaskPcNext(t) = "generating")
                => (ai_model_writer = t /\ ai_model_writer' = t)
          /\ (TaskPc(t) = "generating")
                => /\ ai_model_writer = t
                   /\ (TaskPcNext(t) = "generating"
                          => (ai_model' = ai_model /\ ai_model_writer' = t))
                   /\ (TaskPcNext(t) # "generating"
                          => TaskPcNext(t) \in {"done", "send"})]_vars

\* a session is between its load step and its response while the HTTP
\* handler waits for the lock
C2_Witness ==
    \E s \in Ws, h \in Http :
        /\ wsPc[s] = "generating"
        /\ httpPc[h] = "acquire"
        /\ ai_model.val.loaded

\* C3: a task that is not inside the guarded section is never the recorded
\* lock holder: once a handler or session has left the section, on whatever
\* path, the lock is no longer held by it.
C3_GuaranteedRelease ==
    /\ ai_model_writer \in Tasks \cup {NoTask}
    /\ \A t \in Tasks : ai_model_writer = t => TaskPc(t) \in Critical

\* the HTTP handler finished on the empty-slot path and a session has
\* acquired the lock after it
C3_Witness ==
    \E h \in Http, s \in Ws :
        /\ httpPc[h] = "done"
        /\ httpResp[h].status = 200
        /\ ~ai_model.some
        /\ wsPc[s] = "locked"
        /\ ai_model_writer = s

\* C4: the response step of generate runs only on a loaded engine, and
\* after a generate call that returned Ok the engine is loaded, also when
\* load was never called on it.
C4_NeverUnloaded ==
    /\ engPc = "generating" => (engine.some /\ engine.val.loaded)
    /\ (engLast.op = "generate" /\ engLast.ok) => (engine.some /\ engine.val.loaded)

\* generate was the first call on a freshly constructed engine
C4_Witness ==
    /\ engLast.op = "generate"
    /\ engLast.ok
    /\ engCalls = 1
    /\ engLoads = 1

\* C5: once loaded, no call changes any field of the engine (the flag never
\* returns to false); the simulated load work has run exactly once on a
\* loaded engine and never on an unloaded one; every load call returns Ok.
C5_LoadIdempotent ==
    [][/\ (engine.some /\ engine.val.loaded) => engine' = engine
       /\ engLoads' = (IF engine'.some /\ engine'.val.loaded THEN 1 ELSE 0)
       /\ engLast'.op = "load" => engLast'.ok]_vars

\* a load call made after the engine was already loaded
C5_Witness ==
    /\ engLast.op = "load"
    /\ engCalls >= 2
    /\ engLoads = 1
    /\ engine.val.loaded

\* C6: a generate call that returns Ok reports tokens = min(n, 500), for
\* every prompt, model type and load state.
C6_TokensCapped ==
    (engLast.op = "generate" /\ engLast.ok) =>
        engLast.response.tokens =
            (IF engLast.max_tokens <= 500 THEN engLast.max_tokens ELSE 500)

\* a custom model asked for 501 tokens on a keyword prompt reports 500
C6_Witness ==
    /\ engLast.op = "generate"
    /\ engLast.ok
    /\ engLast.max_tokens = 501
    /\ engLast.response.tokens = 500
    /\ engLast.prompt = STR_login
    /\ engine.val.model_type.variant = "Custom"

\* C7: construction never fails, and for a name that maps to the custom
\* identity the model identifier generate reports is the string that was
\* passed to the constructor, character for character.
C7_CustomNameVerbatim ==
    /\ engPc # "new" => engine.some
    /\ (engLast.op = "generate" /\ engLast.ok
            /\ engine.val.model_type.variant = "Custom")
          => engLast.response.model = engName

IsGenerateFrame(m) ==
    /\ m.kind = "text"
    /\ m.valid
    /\ m.type = JStr(STR_generate)
    /\ m.prompt.t = "string"
    /\ m.framework.t = "string"

IsUnknownType(m) ==
    /\ m.kind = "text"
    /\ m.valid
    /\ m.type.t = "string"
    /\ m.type.s # STR_generate

IsInvalidJson(m) ==
    /\ m.kind = "text"
    /\ ~m.valid

\* the session can take a further inbound message
CanReceive(s) == ENABLED (\E msg \in Inbound : WsRecv(s, msg))

\* C8: with an engine configured, a session handling a generate frame with
\* string prompt and framework has sent exactly the generating frame until
\* its result is sent, and exactly <<generating, generated>> once it is back
\* in the receive loop; a prompt containing "login" gets the login
\* placeholder as code.
C8_GeneratingThenGenerated ==
    \A s \in Ws :
        (IsGenerateFrame(wsCur[s]) /\ ai_model.some) =>
            /\ wsPc[s] \in {"acquire", "locked", "generating", "send", "recv"}
            /\ wsPc[s] \in {"acquire", "locked", "generating", "send"}
                  => wsOut[s] = <<GeneratingFrame>>
            /\ wsPc[s] = "recv" =>
                  /\ Len(wsOut[s]) = 2
                  /\ wsOut[s][1] = GeneratingFrame
                  /\ wsOut[s][2].type = "generated"
                  /\ contains(wsCur[s].prompt.s, STR_login) =>
                        wsOut[s][2].code = <<"// Generated login component placeholder">>

\* a session has answered a "login form" prompt
C8_Witness ==
    \E s \in Ws :
        /\ wsPc[s] = "recv"
        /\ IsGenerateFrame(wsCur[s])
        /\ contains(wsCur[s].prompt.s, STR_login)
        /\ Len(wsOut[s]) = 2
        /\ wsOut[s][2].type = "generated"

\* C9: a session that received a JSON frame whose type is a string other
\* than "generate" never enters handle_ws_generate and never holds the lock
\* for it: it has sent exactly one frame, the error frame naming the
\* received type, and is in the receive loop, able to take further frames.
C9_UnknownType ==
    \A s \in Ws :
        IsUnknownType(wsCur[s]) =>
            /\ wsPc[s] = "recv"
            /\ ai_model_writer # s
            /\ wsOut[s] = <<[type |-> "error",
                             message |-> <<"Unknown message type: ">>
                                         \o wsCur[s].type.s]>>
            /\ ~wsClosed[s] => CanReceive(s)

\* the error frame for "ping" was sent while another task held the lock
C9_Witness ==
    \E s \in Ws :
        /\ IsUnknownType(wsCur[s])
        /\ wsPc[s] = "recv"
        /\ wsOut[s][1].message = <<"Unknown message type: ", "p", "i", "n", "g">>
        /\ ai_model_writer \in Tasks \ {s}

\* C10: a session that received a text frame that is not valid JSON has
\* sent exactly one frame, an error frame whose message starts with
\* "Invalid JSON: ", and is in the receive loop, not disconnected, able to
\* take further frames.
C10_InvalidJson ==
    \A s \in Ws :
        IsInvalidJson(wsCur[s]) =>
            /\ wsPc[s] = "recv"
            /\ Len(wsOut[s]) = 1
            /\ wsOut[s][1].type = "error"
            /\ wsOut[s][1].message[1] = "Invalid JSON: "
            /\ Len(wsOut[s][1].message) > 1
            /\ ~wsClosed[s] => CanReceive(s)

\* a session answered a malformed frame while the HTTP handler was generating
C10_Witness ==
    \E s \in Ws, h \in Http :
        /\ IsInvalidJson(wsCur[s])
        /\ wsPc[s] = "recv"
        /\ Len(wsOut[s]) = 1
        /\ httpPc[h] = "generating"

IsIncompleteGenerate(m) ==
    /\ m.kind = "text"
    /\ m.valid
    /\ m.type = JStr(STR_generate)
    /\ (m.prompt.t # "string" \/ m.framework.t # "string")

\* what the tasks share, and what belongs to the tasks other than t
SharedUnchanged ==
    /\ ai_model' = ai_model
    /\ ai_model_writer' = ai_model_writer
    /\ projects' = projects
    /\ projects_readers' = projects_readers
    /\ server' = server

OthersUnchanged(t) ==
    \A u \in Tasks \ {t} :
        /\ httpPc'[u] = httpPc[u]
        /\ httpResp'[u] = httpResp[u]
        /\ wsPc'[u] = wsPc[u]
        /\ wsCur'[u] = wsCur[u]
        /\ wsOut'[u] = wsOut[u]
        /\ wsResp'[u] = wsResp[u]

\* C11: a session whose current frame is a "generate" frame with prompt or
\* framework absent or not a string has sent no frame for it, does not hold
\* and does not wait for the engine lock, and is in the receive loop able to
\* take the next frame; the step that received the frame changed neither
\* the shared state nor any other task.
C11_IncompleteGenerateIgnored ==
    /\ [](\A s \in Ws :
            IsIncompleteGenerate(wsCur[s]) =>
                /\ wsPc[s] = "recv"
                /\ wsOut[s] = <<>>
                /\ wsResp[s] = NoFrame
                /\ ai_model_writer # s
                /\ ~wsClosed[s] => CanReceive(s))
    /\ [][\A s \in Ws :
            (wsCur'[s] # wsCur[s] /\ IsIncompleteGenerate(wsCur'[s])) =>
                /\ SharedUnchanged
                /\ OthersUnchanged(s)]_vars

\* a generate frame without prompt was dropped while another task held the lock
C11_Witness ==
    \E s \in Ws :
        /\ IsIncompleteGenerate(wsCur[s])
        /\ wsCur[s].prompt.t = "absent"
        /\ wsPc[s] = "recv"
        /\ wsOut[s] = <<>>
        /\ ai_model_writer \in Tasks \ {s}

\* JSON text without a string "type"
IsMissingType(m) ==
    /\ m.kind = "text"
    /\ m.valid
    /\ m.type.t # "string"

\* a malformed request: text that is not JSON, or JSON without the fields
\* its handling requires
IsMalformed(m) ==
    IsInvalidJson(m) \/ IsMissingType(m) \/ IsIncompleteGenerate(m)

\* C12 as stated: every malformed WebSocket request, invalid JSON or
\* missing required fields, is answered with an error frame and the session
\* stays in its receive loop.
C12_MalformedGetsErrorFrame ==
    \A s \in Ws :
        IsMalformed(wsCur[s]) =>
            /\ wsPc[s] = "recv"
            /\ Len(wsOut[s]) = 1
            /\ wsOut[s][1].type = "error"

\* C12 amended: a malformed WebSocket request never ends the session; text
\* that is not JSON is answered with one "Invalid JSON" error frame, JSON
\* that lacks a required field (a string type, or a generate frame's string
\* prompt and framework) is answered with no frame at all.
C12_MalformedKeepsSession ==
    \A s \in Ws :
        IsMalformed(wsCur[s]) =>
            /\ wsPc[s] = "recv"
            /\ ai_model_writer # s
            /\ IsInvalidJson(wsCur[s]) =>
                  wsOut[s] = <<ErrorFrame(<<"Invalid JSON: ">> \o wsCur[s].err)>>
            /\ ~IsInvalidJson(wsCur[s]) => wsOut[s] = <<>>

\* one session got the error frame for bad text, another got nothing for a
\* frame without type
C12_Witness ==
    \E s, u \in Ws :
        /\ IsInvalidJson(wsCur[s])
        /\ Len(wsOut[s]) = 1
        /\ IsMissingType(wsCur[u])
        /\ wsCur[u].type.t = "absent"
        /\ wsPc[u] = "recv"
        /\ wsOut[u] = <<>>

\* the server runs without an engine
NoEngine == server = "serving" /\ ~ai_model.some

\* handle_generate was called for h's request
InHandleGenerate(h) == httpReq[h] # NoRequest

\* C13: without an engine, a handle_generate call never enters generation
\* (no task does), and once done it has replied 200 with tokens 0, time_ms 0
\* and a placeholder code that contains the submitted prompt and framework
\* character for character.
C13_PlaceholderWithoutEngine ==
    NoEngine =>
        /\ \A t \in Tasks : TaskPc(t) # "generating"
        /\ \A h \in Http :
              InHandleGenerate(h) =>
                  /\ httpPc[h] \in {"acquire", "locked", "done"}
                  /\ httpPc[h] = "done" =>
                        /\ httpResp[h].status = 200
                        /\ httpResp[h].body.tokens = 0
                        /\ httpResp[h].body.time_ms = 0
                        /\ httpResp[h].body.code[1] = "// AI not enabled\n// Request: "
                        /\ contains(httpResp[h].body.code, httpReq[h].prompt)
                        /\ contains(httpResp[h].body.code, httpReq[h].framework)
                        /\ httpReq[h].prompt = httpBody[h].prompt.s
                        /\ httpReq[h].framework = httpBody[h].framework.s

\* two placeholder replies were made, for different prompts
C13_Witness ==
    /\ NoEngine
    /\ \E h, g \in Http :
          /\ httpPc[h] = "done" /\ httpPc[g] = "done"
          /\ InHandleGenerate(h) /\ InHandleGenerate(g)
          /\ httpReq[h].prompt = STR_loginForm
          /\ httpReq[g].prompt = STR_navbar
          /\ httpResp[h].body.tokens = 0
          /\ httpResp[g].body.tokens = 0

\* C14: without an engine, a session handling a generate frame with string
\* prompt and framework never produces a "generated" frame; its result is
\* the error frame "AI model not available", sent after the generating
\* frame, and the session is then back in the receive loop, able to take
\* further frames.
C14_NotAvailableWithoutEngine ==
    NoEngine =>
        \A s \in Ws :
            /\ wsResp[s].type # "generated"
            /\ \A i \in 1..Len(wsOut[s]) : wsOut[s][i].type # "generated"
            /\ IsGenerateFrame(wsCur[s]) =>
                  /\ wsPc[s] \in {"acquire", "locked", "send", "recv"}
                  /\ wsPc[s] = "send" =>
                        wsResp[s] = ErrorFrame(<<"AI model not available">>)
                  /\ wsPc[s] = "recv" =>
                        /\ wsOut[s] = <<GeneratingFrame,
                                        ErrorFrame(<<"AI model not available">>)>>
                        /\ ~wsClosed[s] => CanReceive(s)

\* a session got "AI model not available" and can take its next frame
C14_Witness ==
    /\ NoEngine
    /\ \E s \in Ws :
          /\ IsGenerateFrame(wsCur[s])
          /\ wsPc[s] = "recv"
          /\ Len(wsOut[s]) = 2
          /\ wsOut[s][2].type = "error"
          /\ ~wsClosed[s]

IsConnectedFrame(f) == f.type = "connected"

\* C15: a task that is not a session has sent nothing; the step that makes
\* it a session sends exactly the connected frame carrying the session's
\* client id, and a task becomes a session once; until the session has read
\* its first inbound frame that frame is all it has sent, and from the first
\* inbound frame on it never sends a connected frame again.
C15_ConnectedFirstOnce ==
    /\ [](\A s \in Ws :
            /\ wsPc[s] = "none" => (wsOut[s] = <<>> /\ wsCur[s] = NoMsg)
            /\ (wsPc[s] = "recv" /\ wsCur[s] = NoMsg) =>
                  wsOut[s] = <<ConnectedFrame(NewUuid(s))>>
            /\ wsCur[s] # NoMsg =>
                  /\ ~IsConnectedFrame(wsResp[s])
                  /\ \A i \in 1..Len(wsOut[s]) : ~IsConnectedFrame(wsOut[s][i])
            /\ \A u \in Ws \ {s} : NewUuid(u) # NewUuid(s))
    /\ [][\A s \in Ws :
            /\ (wsPc[s] = "none" /\ wsPc'[s] # "none") =>
                  /\ wsPc'[s] = "recv"
                  /\ wsOut'[s] = <<ConnectedFrame(NewUuid(s))>>
                  /\ wsCur'[s] = NoMsg
            /\ wsPc[s] # "none" => wsPc'[s] # "none"
            /\ (wsCur[s] = NoMsg /\ wsCur'[s] # NoMsg) =>
                  wsOut[s] = <<ConnectedFrame(NewUuid(s))>>]_vars

\* both sessions are connected, each with its own client id, and neither
\* has read a frame yet
C15_Witness ==
    \E s, u \in Ws :
        /\ s # u
        /\ wsPc[s] = "recv" /\ wsPc[u] = "recv"
        /\ wsCur[s] = NoMsg /\ wsCur[u] = NoMsg
        /\ wsOut[s][1].client_id = NewUuid(s)
        /\ wsOut[u][1].client_id = NewUuid(u)

\* the positions of a session inside handle_ws_generate
InWsGenerate == {"acquire", "locked", "generating", "send"}

\* C16: a session takes a frame only at the head of its receive loop, with
\* no result of an earlier frame left to send, and it enters
\* handle_ws_generate only from there, so one call at most is in flight;
\* while the call is in flight the current frame is the generate frame it
\* serves and nothing but its generating frame has been sent; the frames
\* sent for one inbound frame are at most two, the generating frame first
\* and the result second.
C16_SequentialFrames ==
    /\ [](\A s \in Ws :
            /\ wsPc[s] = "recv" => wsResp[s] = NoFrame
            /\ wsPc[s] \in InWsGenerate =>
                  /\ IsGenerateFrame(wsCur[s])
                  /\ wsOut[s] = <<GeneratingFrame>>
                  /\ ~CanReceive(s)
            /\ wsPc[s] = "send" => wsResp[s].type \in {"generated", "error"}
            /\ Len(wsOut[s]) <= 2
            /\ Len(wsOut[s]) = 2 =>
                  /\ wsPc[s] = "recv"
                  /\ wsOut[s][1] = GeneratingFrame
                  /\ wsOut[s][2].type \in {"generated", "error"})
    /\ [][\A s \in Ws :
            /\ wsCur'[s] # wsCur[s] =>
                  (wsPc[s] = "recv" /\ wsResp[s] = NoFrame)
            /\ (wsPc'[s] = "acquire" /\ wsPc[s] # "acquire") => wsPc[s] = "recv"
            /\ (wsPc[s] \in InWsGenerate /\ wsPc'[s] \notin InWsGenerate) =>
                  /\ wsPc[s] = "send"
                  /\ wsPc'[s] = "recv"
                  /\ wsOut'[s] = <<GeneratingFrame, wsResp[s]>>]_vars

\* a generate call is in flight on an open connection and the session does
\* not take the next frame
C16_Witness ==
    \E s \in Ws :
        /\ wsPc[s] = "generating"
        /\ ~wsClosed[s]
        /\ ~CanReceive(s)

\* a body that is a GenerateRequest: JSON with string prompt and framework
IsGenerateRequest(b) ==
    /\ b.valid
    /\ b.prompt.t = "string"
    /\ b.framework.t = "string"
    /\ b.model.t \in {"string", "absent"}

\* C17: a POST /api/generate whose body is not a GenerateRequest is done
\* with status 400; handle_generate was not called for it, it does not hold
\* the engine lock, and the step that rejected it changed neither the
\* shared state nor any other task.
C17_BadBodyRejected ==
    /\ [](\A h \in Http :
            (httpBody[h] # NoBody /\ ~IsGenerateRequest(httpBody[h])) =>
                /\ httpPc[h] = "done"
                /\ httpResp[h] = [status |-> 400]
                /\ ~InHandleGenerate(h)
                /\ ai_model_writer # h
                /\ h \notin projects_readers)
    /\ [][\A h \in Http :
            (httpBody'[h] # httpBody[h] /\ ~IsGenerateRequest(httpBody'[h])) =>
                /\ SharedUnchanged
                /\ OthersUnchanged(h)]_vars

\* a body without prompt was rejected while another task held the lock
C17_Witness ==
    \E h \in Http :
        /\ httpBody[h].valid
        /\ httpBody[h].prompt.t = "absent"
        /\ httpResp[h].status = 400
        /\ ai_model_writer \in Tasks \ {h}

\* C18: no step in which a session sends a frame starts or ends with that
\* session holding the engine lock; the generating frame is out before the
\* session waits for the lock, and the result is sent after the lock is
\* released.
C18_NoSendUnderLock ==
    /\ [](\A s \in Ws :
            /\ wsPc[s] \in {"acquire", "send", "recv"} => ai_model_writer # s
            /\ wsPc[s] = "acquire" => wsOut[s] = <<GeneratingFrame>>
            /\ (ai_model_writer = s /\ wsPc[s] # "none") =>
                  (wsPc[s] \in Critical /\ wsOut[s] = <<GeneratingFrame>>))
    /\ [][\A s \in Ws :
            wsOut'[s] # wsOut[s] =>
                (ai_model_writer # s /\ ai_model_writer' # s)]_vars

\* two sessions have sent their generating frame; one holds the lock, the
\* other waits for it
C18_Witness ==
    \E s, u \in Ws :
        /\ wsOut[s] = <<GeneratingFrame>>
        /\ wsOut[u] = <<GeneratingFrame>>
        /\ ai_model_writer = s
        /\ wsPc[u] = "acquire"

\* C19: the end of a session's connection while the session is inside
\* handle_ws_generate changes neither the session's position nor the lock
\* nor the engine; a session inside handle_ws_generate
\* never becomes disconnected from there: it becomes disconnected only from
\* the head of its receive loop, where it holds no lock and has no result
\* left to send, and a generate call it had running leaves "generating" only
\* with its result made and the lock released.
C19_CloseDoesNotCancel ==
    /\ [](\A s \in Ws :
            wsPc[s] = "disconnected" =>
                (ai_model_writer # s /\ wsResp[s] = NoFrame /\ wsClosed[s]))
    /\ [][\A s \in Ws :
            /\ (wsClosed'[s] /\ ~wsClosed[s] /\ wsPc[s] # "recv") =>
                  /\ wsPc'[s] = wsPc[s]
                  /\ wsResp'[s] = wsResp[s]
                  /\ ai_model_writer' = ai_model_writer
                  /\ ai_model' = ai_model
            /\ (wsPc'[s] = "disconnected" /\ wsPc[s] # "disconnected") =>
                  /\ wsPc[s] = "recv"
                  /\ ai_model_writer # s
            /\ (wsPc[s] = "generating" /\ wsPc'[s] # "generating") =>
                  /\ wsPc'[s] = "send"
                  /\ wsResp'[s].type = "generated"
                  /\ ai_model_writer = s
                  /\ ai_model_writer' = NoTask]_vars

\* the connection of a session has ended while its generate call runs
\* under the lock
C19_Witness ==
    \E s \in Ws :
        /\ wsClosed[s]
        /\ wsPc[s] = "generating"
        /\ ai_model_writer = s

\* C20: while a task holds the engine lock, every other task can take each
\* step that does not need the engine: a new client can start
\* GET /api/projects or be upgraded and get its connected frame, a
\* list_projects call can reply, and a session at the head of its receive
\* loop on an open connection can take any frame other than a complete
\* generate frame and be back at the head of the loop in the same step.
C20_EngineFreeNotBlocked ==
    \A t \in Tasks :
        ai_model_writer = t =>
            \A u \in Tasks \ {t} :
                /\ (httpPc[u] = "idle" /\ wsPc[u] = "none") =>
                      /\ ENABLED HttpProjects(u)
                      /\ ENABLED (WsUpgrade(u)
                                    /\ wsOut'[u] = <<ConnectedFrame(NewUuid(u))>>)
                /\ httpPc[u] = "reading" =>
                      ENABLED (ProjectsReply(u) /\ httpResp'[u].status = 200)
                /\ (wsPc[u] = "recv" /\ ~wsClosed[u]) =>
                      \A msg \in Inbound :
                          ~IsGenerateFrame(msg) =>
                              ENABLED (WsRecv(u, msg) /\ wsPc'[u] = "recv")

\* a list_projects call holds its read guard while another task generates
\* under the engine lock
C20_Witness ==
    \E t, u \in Tasks :
        /\ ai_model_writer = t
        /\ TaskPc(t) = "generating"
        /\ httpPc[u] = "reading"
        /\ u \in projects_readers

\* C21: a generation request that waits for the engine lock leaves its wait
\* in one way only, by getting the lock, and only in a step that starts
\* with the lock free; so for as long as the generate call of the holder
\* has not returned, no waiting request, HTTP or WebSocket, gets any
\* further: it has no reply and no result frame, and it cannot acquire.
C21_NoTimeoutOnLock ==
    /\ [](\A t \in Tasks :
            (ai_model_writer = t /\ TaskPc(t) = "generating") =>
                \A u \in Tasks \ {t} :
                    TaskPc(u) = "acquire" =>
                        /\ ~ENABLED HttpAcquire(u)
                        /\ ~ENABLED WsAcquire(u)
                        /\ httpResp[u] = NoReply
                        /\ wsResp[u] = NoFrame
                        /\ Len(wsOut[u]) <= 1)
    /\ [][\A u \in Tasks :
            (TaskPc(u) = "acquire" /\ TaskPcNext(u) # "acquire") =>
                /\ TaskPcNext(u) = "locked"
                /\ ai_model_writer = NoTask
                /\ ai_model_writer' = u]_vars

\* an HTTP request waits for the lock while a session's generate call runs
C21_Witness ==
    \E t, u \in Tasks :
        /\ ai_model_writer = t
        /\ wsPc[t] = "generating"
        /\ httpPc[u] = "acquire"

\* the steps a session can take
SessionEnabled(s) ==
    \/ CanReceive(s)
    \/ ENABLED WsAcquire(s)
    \/ ENABLED WsGenerateLoad(s)
    \/ ENABLED (\E e \in WebElapsed : WsGenerateRespond(s, e))
    \/ ENABLED WsNotAvailable(s)
    \/ ENABLED WsSendResult(s)
    \/ ENABLED WsRecvEnd(s)
    \/ ENABLED WsRecvError(s)

\* C22: a session in its receive loop whose inbound stream ends or fails
\* becomes disconnected in that step; a session whose stream has ended
\* takes no further frame; a disconnected session holds no lock, has
\* nothing to send, can take no step and stays as it is; and the step that
\* disconnects a session changes neither the shared state nor any other
\* task.
C22_TeardownTerminal ==
    /\ [](\A s \in Ws :
            /\ wsClosed[s] => ~CanReceive(s)
            /\ wsPc[s] = "disconnected" =>
                  /\ wsClosed[s]
                  /\ ai_model_writer # s
                  /\ wsResp[s] = NoFrame
                  /\ wsOut[s] = <<>>
                  /\ ~SessionEnabled(s))
    /\ [][\A s \in Ws :
            /\ (wsPc[s] = "recv" /\ wsClosed'[s] /\ ~wsClosed[s]) =>
                  wsPc'[s] = "disconnected"
            /\ (wsPc[s] = "recv" /\ wsClosed[s] /\ wsPc'[s] # "recv") =>
                  wsPc'[s] = "disconnected"
            /\ wsPc[s] = "disconnected" =>
                  /\ wsPc'[s] = "disconnected"
                  /\ wsCur'[s] = wsCur[s]
                  /\ wsOut'[s] = wsOut[s]
                  /\ wsResp'[s] = wsResp[s]
            /\ (wsPc[s] # "disconnected" /\ wsPc'[s] = "disconnected") =>
                  /\ wsPc[s] = "recv"
                  /\ SharedUnchanged
                  /\ OthersUnchanged(s)]_vars

\* one session is disconnected; another, on an open connection, has since
\* got the result of a generate frame
C22_Witness ==
    \E s, u \in Ws :
        /\ wsPc[s] = "disconnected"
        /\ wsPc[u] = "recv"
        /\ ~wsClosed[u]
        /\ Len(wsOut[u]) = 2

\* C23: once a tx.send of a session has failed, the session takes no
\* further inbound frame: the only change of its current frame is the one
\* made by teardown.
C23_SendFailureTearsDown ==
    [][\A s \in Ws :
        (wsSends[s] = "failed" /\ wsCur'[s] # wsCur[s]) =>
            wsPc'[s] = "disconnected"]_vars

\* C25: every load and every generate call made so far returned Ok, a
\* generate call with its response; a call past its load step has the
\* engine loaded; and a loaded engine accepts a generate call for every
\* prompt and every token budget and answers it with Ok.
C25_GenerateNeverFails ==
    /\ engLast.op \in {"load", "generate"} => engLast.ok
    /\ engLast.op = "generate" =>
          /\ engLast.response.tokens <= engLast.max_tokens
          /\ Len(engLast.response.content) > 0
    /\ engPc = "generating" =>
          /\ engine.val.loaded
          /\ ENABLED (\E e \in Elapsed :
                         EngGenerateRespond(e) /\ engLast'.ok
                            /\ engLast'.prompt = engReq.prompt)
    /\ (engPc = "ready" /\ engine.val.loaded /\ engCalls < MaxCalls) =>
          \A p \in Prompts, n \in Budgets :
              ENABLED (EngGenerateLoad(p, n) /\ engPc' = "generating")

\* an engine loaded by an earlier call answered the empty prompt with a
\* budget of 0
C25_Witness ==
    /\ engLast.op = "generate"
    /\ engLast.ok
    /\ engLast.prompt = <<>>
    /\ engLast.max_tokens = 0
    /\ engCalls >= 2
    /\ engLoads = 1

\* C26: before the server serves the slot is empty and no request is
\* taken; while it serves the slot holds an engine exactly if AI was
\* enabled, and that engine is the loaded phi-3-mini engine; no step of a
\* serving server changes the slot.
C26_SlotFixedAtStartup ==
    /\ [](/\ server = "start" =>
                /\ ~ai_model.some
                /\ \A t \in Tasks : httpPc[t] = "idle" /\ wsPc[t] = "none"
          /\ server = "serving" =>
                /\ ai_model.some <=> enable_ai
                /\ ai_model.some =>
                      /\ ai_model.val.loaded
                      /\ ai_model.val.model_type = Phi3Mini)
    /\ [][server = "serving" =>
            (ai_model' = ai_model /\ enable_ai' = enable_ai
                /\ server' = "serving")]_vars

\* with AI enabled, an HTTP request and a generate frame have both been
\* answered by the engine
C26_Witness ==
    /\ enable_ai
    /\ ai_model.some
    /\ \E h \in Http, s \in Ws :
          /\ httpPc[h] = "done"
          /\ InHandleGenerate(h)
          /\ wsPc[s] = "recv"
          /\ Len(wsOut[s]) = 2
          /\ wsOut[s][2].type = "generated"

\* C27: the project list is the empty list it was created as, whatever the
\* handlers have done; the read guards held are exactly those of the
\* list_projects calls in progress; a finished list_projects call has
\* replied 200 with the list; and a new list_projects call gets its read
\* guard whoever else holds one.
C27_ProjectsReadOnly ==
    /\ projects = <<>>
    /\ projects_readers = {h \in Http : httpPc[h] = "reading"}
    /\ \A h \in Http :
          /\ (httpPc[h] = "done" /\ httpBody[h] = NoBody) =>
                httpResp[h] = JsonReply(projects)
          /\ (server = "serving" /\ httpPc[h] = "idle" /\ wsPc[h] = "none") =>
                ENABLED (HttpProjects(h) /\ h \in projects_readers')

\* two list_projects calls hold their read guards at the same time
C27_Witness ==
    \E h, g \in Http :
        /\ h # g
        /\ {h, g} \subseteq projects_readers

\* a frame log without the measured times
SansTime(frames) ==
    [i \in 1..Len(frames) |->
        IF frames[i].type = "generated"
        THEN [frames[i] EXCEPT !.time_ms = 0]
        ELSE frames[i]]

\* the frames a session sends for one inbound message, from the message
\* and from whether AI was enabled alone
FramesFor(msg, enabled) ==
    IF msg.kind # "text" THEN <<>>
    ELSE IF ~msg.valid
    THEN <<[type |-> "error", message |-> <<"Invalid JSON: ">> \o msg.err]>>
    ELSE IF msg.type.t # "string" THEN <<>>
    ELSE IF msg.type.s # STR_generate
    THEN <<[type |-> "error",
            message |-> <<"Unknown message type: ">> \o msg.type.s]>>
    ELSE IF msg.prompt.t # "string" \/ msg.framework.t # "string" THEN <<>>
    ELSE IF ~enabled
    THEN <<[type |-> "generating", message |-> <<"AI is generating code...">>],
           [type |-> "error", message |-> <<"AI model not available">>]>>
    ELSE <<[type |-> "generating", message |-> <<"AI is generating code...">>],
           [type |-> "generated",
            code |-> generate_phi3_response(msg.prompt.s),
            tokens |-> TokenCeiling,
            time_ms |-> 0,
            model |-> STR_phi3mini]>>

\* task t takes a step
Acts(t) ==
    \/ httpPc'[t] # httpPc[t]
    \/ httpResp'[t] # httpResp[t]
    \/ wsPc'[t] # wsPc[t]
    \/ wsCur'[t] # wsCur[t]
    \/ wsOut'[t] # wsOut[t]
    \/ wsResp'[t] # wsResp[t]
    \/ wsClosed'[t] # wsClosed[t]

\* C28: what a session has sent for its current inbound message is, times
\* aside, the function FramesFor of that message and of whether AI was
\* enabled: all of it once the session is back in its receive loop, the
\* leading generating frame while its generate call is in flight; and a
\* step of one task changes neither the position nor the frames nor the
\* pending result of any other task.
C28_FailureContainment ==
    /\ [](\A s \in Ws :
            /\ (wsPc[s] = "recv" /\ wsCur[s] # NoMsg) =>
                  SansTime(wsOut[s]) = FramesFor(wsCur[s], enable_ai)
            /\ wsPc[s] \in InWsGenerate =>
                  /\ wsOut[s] = <<FramesFor(wsCur[s], enable_ai)[1]>>
                  /\ wsPc[s] = "send" =>
                        SansTime(<<wsResp[s]>>)
                            = <<FramesFor(wsCur[s], enable_ai)[2]>>)
    /\ [][\A t \in Tasks : Acts(t) => OthersUnchanged(t)]_vars

\* a session got its generated frame while the other session's current
\* frame is malformed text
C28_Witness ==
    \E s, u \in Ws :
        /\ s # u
        /\ wsPc[s] = "recv"
        /\ Len(wsOut[s]) = 2
        /\ wsOut[s][2].type = "generated"
        /\ IsInvalidJson(wsCur[u])
        /\ wsOut[u][1].type = "error"

\* C29: under the scheduling of FairSpec, every HTTP generate request that
\* waits for the engine lock eventually has its 200 reply, and every
\* session that waits for the lock with a generate frame eventually is back
\* in its receive loop having sent, after the generating frame, exactly one
\* terminal frame, "generated" or "error".
C29_NoStarvation ==
    /\ \A h \in Http :
          (httpPc[h] = "acquire") ~>
              (httpPc[h] = "done" /\ httpResp[h].status = 200)
    /\ \A s \in Ws :
          (wsPc[s] = "acquire") ~>
              (/\ wsPc[s] = "recv"
               /\ Len(wsOut[s]) = 2
               /\ wsOut[s][1] = GeneratingFrame
               /\ wsOut[s][2].type \in {"generated", "error"})

\* a session waits for the lock that an HTTP handler holds for its
\* generate call
C29_Witness ==
    \E h \in Http, s \in Ws :
        /\ ai_model_writer = h
        /\ httpPc[h] = "generating"
        /\ wsPc[s] = "acquire"

\* prompt p contains keyword k in some casing
Mentions(p, k) ==
    \E i \in 1..(Len(p) - Len(k) + 1) :
        \A j \in 1..Len(k) : ToLowerChar(p[i + j - 1]) = k[j]

\* the content the claim gives for a model type variant and a prompt
ContentFor(variant, p) ==
    IF variant \in {"Phi3Mini", "Phi3Small", "Phi3Medium"} /\ Mentions(p, STR_login)
    THEN <<"// Generated login component placeholder">>
    ELSE IF variant \in {"Phi3Mini", "Phi3Small", "Phi3Medium"}
            /\ Mentions(p, STR_card)
    THEN <<"// Generated card component placeholder">>
    ELSE <<"// Generated code based on prompt: ">> \o p

\* C30: the content of every generate result is ContentFor of the engine's
\* model type and the prompt, whatever the token budget, the measured time
\* and the calls made before: login placeholder, else card placeholder,
\* else the generic template with the prompt, for the Phi-3 variants; the
\* generic template for a custom model.
C30_ContentByTypeAndPrompt ==
    (engLast.op = "generate" /\ engLast.ok) =>
        engLast.response.content
            = ContentFor(engine.val.model_type.variant, engLast.prompt)

\* a Phi-3 engine other than mini answered a prompt that has both keywords,
\* "card" first, with the login placeholder
C30_Witness ==
    /\ engLast.op = "generate"
    /\ engine.val.model_type.variant \in {"Phi3Small", "Phi3Medium"}
    /\ Mentions(engLast.prompt, STR_card)
    /\ Mentions(engLast.prompt, STR_login)
    /\ engLast.response.content = <<"// Generated login component placeholder">>

\* name n with every upper-case letter replaced by its lower-case letter
Lowered(n) == [i \in 1..Len(n) |-> ToLowerChar(n[i])]

\* the identifier generate reports for an engine constructed from name n
ReportedFor(n) == AIModelType_to_string(AIModel_new(n).model.model_type)

\* C31: the engine constructed from a name has the built-in variant whose
\* identifier the lowercased name is, or else the custom identity; the
\* model identifier of every generate result is the lowercased name; and
\* the engine constructed from that identifier reports the same identifier.
C31_NameCanonicalised ==
    engine.some =>
        /\ Lowered(engName) = STR_phi3mini
              <=> engine.val.model_type.variant = "Phi3Mini"
        /\ Lowered(engName) = STR_phi3small
              <=> engine.val.model_type.variant = "Phi3Small"
        /\ Lowered(engName) = STR_phi3medium
              <=> engine.val.model_type.variant = "Phi3Medium"
        /\ ReportedFor(engName) = Lowered(engName)
        /\ (engLast.op = "generate" /\ engLast.ok) =>
              /\ engLast.response.model = Lowered(engName)
              /\ ReportedFor(engLast.response.model) = engLast.response.model

\* engines made from "PHI-3-MINI"-like and from "MyLM"-like names: here a
\* custom name with capitals was reported in lower case
C31_Witness ==
    /\ engLast.op = "generate"
    /\ engine.val.model_type.variant = "Custom"
    /\ engName # Lowered(engName)
    /\ engLast.response.model = Lowered(engName)

\* handle_generate call h has replied
HttpAnswered(h) == httpPc[h] = "done" /\ InHandleGenerate(h)

\* session s has sent the final frame of the generate message it received last
WsAnswered(s) ==
    /\ IsGenerateFrame(wsCur[s])
    /\ wsPc[s] = "recv"
    /\ Len(wsOut[s]) = 2

\* C32: with an engine in the slot, two answered HTTP generate requests with
\* the same prompt carry the same code, and every such reply has tokens 500,
\* whatever the framework and model fields were; two sessions that answered a
\* "generate" message with the same prompt sent "generated" frames with the
\* same code, tokens 500 and the same model identifier, that of the engine
\* in the slot, whatever the framework field was.
C32_FrameworkModelIrrelevant ==
    ai_model.some =>
        /\ \A h \in Http : HttpAnswered(h) =>
              /\ httpResp[h].status = 200
              /\ httpResp[h].body.tokens = 500
        /\ \A h, g \in Http :
              (/\ HttpAnswered(h) /\ HttpAnswered(g)
               /\ httpReq[h].prompt = httpReq[g].prompt)
                 => httpResp[h].body.code = httpResp[g].body.code
        /\ \A s \in Ws : WsAnswered(s) =>
              /\ wsOut[s][2].type = "generated"
              /\ wsOut[s][2].tokens = 500
              /\ wsOut[s][2].model
                    = AIModelType_to_string(ai_model.val.model_type)
        /\ \A s, u \in Ws :
              (/\ WsAnswered(s) /\ WsAnswered(u)
               /\ wsCur[s].prompt = wsCur[u].prompt)
                 => /\ wsOut[s][2].code = wsOut[u][2].code
                    /\ wsOut[s][2].model = wsOut[u][2].model

\* two HTTP requests with one prompt but different framework and model values
\* were both answered by the engine
C32_Witness ==
    /\ ai_model.some
    /\ \E h, g \in Http :
          /\ HttpAnswered(h) /\ HttpAnswered(g)
          /\ httpReq[h].prompt = httpReq[g].prompt
          /\ httpReq[h].framework # httpReq[g].framework
          /\ httpReq[h].model # httpReq[g].model
          /\ httpResp[h].body.code = httpResp[g].body.code

\* C33: a session whose current message is JSON text with no "type", or with
\* a "type" that is not a string, has sent no frame for it, neither holds
\* nor waits for the engine lock, is not closed and can receive the next
\* message; the step that received the message sent nothing, closed
\* nothing and left the lock, the slot and every other task as they were.
C33_NoTypeNoFrame ==
    /\ [](\A s \in Ws :
            IsMissingType(wsCur[s]) =>
                /\ wsPc[s] = "recv"
                /\ wsOut[s] = <<>>
                /\ wsResp[s] = NoFrame
                /\ ai_model_writer # s
                /\ ~wsClosed[s]
                /\ CanReceive(s))
    /\ [][\A s \in Ws :
            (wsPc[s] = "recv" /\ wsCur'[s] # wsCur[s]
                /\ IsMissingType(wsCur'[s])) =>
                /\ wsOut'[s] = <<>>
                /\ wsClosed' = wsClosed
                /\ wsSends' = wsSends
                /\ ai_model_writer' = ai_model_writer
                /\ ai_model' = ai_model
                /\ OthersUnchanged(s)]_vars

\* a message whose type is a number was dropped while another task held the
\* lock, and the session is still open
C33_Witness ==
    \E s \in Ws :
        /\ IsMissingType(wsCur[s])
        /\ wsCur[s].type.t = "number"
        /\ wsPc[s] = "recv"
        /\ wsOut[s] = <<>>
        /\ ~wsClosed[s]
        /\ CanReceive(s)
        /\ ai_model_writer \in Tasks \ {s}

=============================================================================
